---- MODULE Spec2Model ----
(***************************************************************************)
(* CloudWanderer (cloudwanderer/cloud_wanderer.py): discovery of the       *)
(* resources of a cloud account, their write to storage connectors and     *)
(* the per-scope clean-up of the records of resources that are gone.       *)
(*                                                                         *)
(* A thread of control (the caller, or one region task of the thread pool) *)
(* is modelled by the list of the steps it still has to run ("todo"): the  *)
(* methods of CloudWanderer are operators that return the steps of their   *)
(* body in program order, and one action runs the step at the head.  Every *)
(* call of a storage connector or of the provider is one step.             *)
(***************************************************************************)
EXTENDS Integers, Sequences, FiniteSets, TLC

VARIABLES
    cloud,      \* the resources the provider currently reports (ids of Universe)
    store,      \* store[c]: the records storage connector c holds
    th,         \* th[t]: thread t (0: the caller, i > 0: the task of region i)
    call,       \* the public method called and its arguments
    issued,     \* the connector calls made so far (kind, connector, thread, scope or urn)
    faults,     \* the provider/connector calls that have raised so far
    nsess,      \* the sessions session_generator has returned so far
    snap        \* store when the previous call of the same method returned

vars == <<cloud, store, th, call, issued, faults, nsess, snap>>

----------------------------------------------------------------------------
(* Bounds of the model. *)

\* storage connectors handed to CloudWanderer(storage_connectors=...)
NumConnectors == 2
\* resources the provider reports at once
MaxCloud == 2
\* records a connector holds before the call
MaxPrior == 2
\* provider/connector calls that raise during one run
MaxFaults == 1
\* calls of the same method in a row
MaxCalls == 2
\* largest concurrency argument of write_resources_concurrently
MaxConcurrency == 2

----------------------------------------------------------------------------
(* Values. *)

Absent == "<absent>"            \* a key a dict does not hold / None
None == "<none>"
account_id == "acct"
OtherAccount == "other"

Regions == {"r1", "r2"}
enabled_regions == <<"r1", "r2">>
NumRegions == Len(enabled_regions)

storage_connectors == [i \in 1..NumConnectors |-> i]
Connectors == 1..NumConnectors

get_all_resource_services == <<"ec2", "s3">>

get_service_resource_types(service_name) ==
    IF service_name = "ec2" THEN <<"instance", "volume">> ELSE <<"bucket">>

\* "s3" is a global service: its API region "r1" returns the buckets of every
\* region, each tagged with the region it belongs to.
IsGlobalService(service_name) == service_name = "s3"
GlobalApiRegion == "r1"

NoUrn == [account_id |-> None, region |-> None, service |-> None,
          resource_type |-> None, resource_id |-> 0]
NoScope == [service |-> None, resource_type |-> None, region |-> None]
NoArgs == [region_name |-> Absent, config |-> Absent]

AwsUrn(account, region, service, resource_type, resource_id) ==
    [account_id |-> account, region |-> region, service |-> service,
     resource_type |-> resource_type, resource_id |-> resource_id]

Scope(service, resource_type, region) ==
    [service |-> service, resource_type |-> resource_type, region |-> region]

\* The resources that may exist in the account.  subs: the subresources of
\* the resource, attrs: the types of its secondary attributes.
Universe == <<
    [id |-> 1, service |-> "ec2", resource_type |-> "instance", home |-> "r1",
     subs |-> <<[id |-> 7, service |-> "ec2", resource_type |-> "nic"]>>,
     attrs |-> <<"attr">>],
    [id |-> 2, service |-> "ec2", resource_type |-> "instance", home |-> "r1",
     subs |-> <<>>, attrs |-> <<>>],
    [id |-> 3, service |-> "ec2", resource_type |-> "volume", home |-> "r1",
     subs |-> <<>>, attrs |-> <<>>],
    [id |-> 4, service |-> "ec2", resource_type |-> "instance", home |-> "r2",
     subs |-> <<>>, attrs |-> <<>>],
    [id |-> 5, service |-> "s3", resource_type |-> "bucket", home |-> "r2",
     subs |-> <<>>, attrs |-> <<>>] >>

UniverseIds == 1..Len(Universe)

\* The handle the provider returns for a resource: a resource of a global
\* service reports the region it belongs to, any other resource reports none.
Handle(u) ==
    [id |-> u.id, service |-> u.service, resource_type |-> u.resource_type,
     region |-> IF IsGlobalService(u.service) THEN u.home ELSE Absent,
     subs |-> u.subs, attrs |-> u.attrs]

SubHandle(s) ==
    [id |-> s.id, service |-> s.service, resource_type |-> s.resource_type,
     region |-> Absent, subs |-> <<>>, attrs |-> <<>>]

\* the concatenation of the sequences ss[i], ss[i+1], ...
RECURSIVE FlattenFrom(_, _)
FlattenFrom(ss, i) ==
    IF i \notin DOMAIN ss THEN <<>> ELSE ss[i] \o FlattenFrom(ss, i + 1)

\* the concatenation of the sequences of ss (ss is evaluated once, as s)
Flatten(ss) == CHOOSE flat \in {FlattenFrom(s, 1) : s \in {ss}} : TRUE

Range(s) == {s[i] : i \in 1..Len(s)}

----------------------------------------------------------------------------
(* The provider (boto3_interface). *)

\* Is resource u returned by a query of its service against region_name?
ListedFrom(u, region_name) ==
    \/ u.home = region_name
    \/ IsGlobalService(u.service) /\ region_name = GlobalApiRegion

get_resources_of_type(existing, service_name, resource_type, client_args) ==
    LET listed(i) == /\ Universe[i].id \in existing
                     /\ Universe[i].service = service_name
                     /\ Universe[i].resource_type = resource_type
                     /\ ListedFrom(Universe[i], client_args.region_name)
    IN  Flatten([i \in UniverseIds |->
                    IF listed(i) THEN <<Handle(Universe[i])>> ELSE <<>>])

\* The regions the resources returned by a query of service_name against
\* region_name belong to.
resource_regions_returned_from_api_region(service_name, region_name) ==
    IF IsGlobalService(service_name) /\ region_name = GlobalApiRegion
    THEN enabled_regions
    ELSE <<region_name>>

\* The region a resource belongs to: the one it reports, else the one queried.
regionOf(boto3_resource, region_name) ==
    IF boto3_resource.region = Absent THEN region_name ELSE boto3_resource.region

_get_resource_urn(boto3_resource, region_name) ==
    AwsUrn(account_id, regionOf(boto3_resource, region_name),
           boto3_resource.service, boto3_resource.resource_type, boto3_resource.id)

get_subresources(boto3_resource) ==
    [i \in 1..Len(boto3_resource.subs) |-> SubHandle(boto3_resource.subs[i])]

get_secondary_attributes(boto3_resource) == boto3_resource.attrs

----------------------------------------------------------------------------
(* The storage connectors.  A record is a urn and the kind of record:      *)
(* "resource", or the attribute type of a secondary attribute.             *)

Record(urn, kind) == [urn |-> urn, kind |-> kind]

InScope(urn, service, resource_type, account, region) ==
    /\ urn.service = service
    /\ urn.resource_type = resource_type
    /\ urn.account_id = account
    /\ urn.region = region

write_resource(records, urn) == records \cup {Record(urn, "resource")}

write_secondary_attribute(records, urn, attribute_type) ==
    records \cup {Record(urn, attribute_type)}

delete_resource_of_type_in_account_region(records, service, resource_type, account, region, urns_to_keep) ==
    {r \in records :
        ~ (/\ InScope(r.urn, service, resource_type, account, region)
           /\ r.urn \notin Range(urns_to_keep))}

----------------------------------------------------------------------------
(* Sessions and client_args.  A dict is a record of its keys, a key it     *)
(* does not hold being Absent; None and the empty dict are both NoArgs.    *)

boto3_session == [id |-> 0, region_name |-> "r1"]

\* what session_generator() returns on its n-th call
NewSession(n) == [id |-> n, region_name |-> "r1"]

Truthy(client_args) ==
    client_args.region_name # Absent \/ client_args.config # Absent

----------------------------------------------------------------------------
(* The steps of CloudWanderer's methods. *)

Op(kind, c, urn, at, scope, ca) ==
    [op |-> kind, c |-> c, urn |-> urn, at |-> at, scope |-> scope, ca |-> ca]

\* (mutant) the subresources are loaded and written before their parent
_write_resource_children_first(boto3_resource, region_name) ==
    LET urn == _get_resource_urn(boto3_resource, region_name)
        subresources == get_subresources(boto3_resource)
        sub_urn(i) == _get_resource_urn(subresources[i], region_name)
    IN  Flatten([i \in 1..Len(subresources) |->
              <<Op("load", 0, sub_urn(i), "", NoScope, NoArgs),
                Op("yield", 0, sub_urn(i), "", NoScope, NoArgs)>>
              \o [j \in 1..NumConnectors |->
                    Op("write_resource", storage_connectors[j], sub_urn(i), "",
                       NoScope, NoArgs)]])
        \o [i \in 1..NumConnectors |->
            Op("write_resource", storage_connectors[i], urn, "", NoScope, NoArgs)]
        \o <<Op("yield", 0, urn, "", NoScope, NoArgs)>>

\* _write_resource: the generator list() runs to its end
_write_resource(boto3_resource, region_name) ==
    LET urn == _get_resource_urn(boto3_resource, region_name)
        subresources == get_subresources(boto3_resource)
        sub_urn(i) == _get_resource_urn(subresources[i], region_name)
    IN  [i \in 1..NumConnectors |->
            Op("write_resource", storage_connectors[i], urn, "", NoScope, NoArgs)]
        \o <<Op("yield", 0, urn, "", NoScope, NoArgs)>>
        \o Flatten([i \in 1..Len(subresources) |->
              <<Op("load", 0, sub_urn(i), "", NoScope, NoArgs),
                Op("yield", 0, sub_urn(i), "", NoScope, NoArgs)>>
              \o [j \in 1..NumConnectors |->
                    Op("write_resource", storage_connectors[j], sub_urn(i), "",
                       NoScope, NoArgs)]])

_write_secondary_attributes(boto3_resource, region_name) ==
    LET secondary_attributes == get_secondary_attributes(boto3_resource)
        urn == _get_resource_urn(boto3_resource, region_name)
    IN  Flatten([i \in 1..Len(secondary_attributes) |->
              [j \in 1..NumConnectors |->
                    Op("write_secondary_attribute", storage_connectors[j], urn,
                       secondary_attributes[i], NoScope, NoArgs)]
              \o <<Op("yield", 0, urn, "", NoScope, NoArgs)>>])

\* (mutant) only the first storage connector is cleaned
_clean_resources_in_region_first_connector(service_name, resource_type, region_name) ==
    <<Op("delete", storage_connectors[1], NoUrn, "",
         Scope(service_name, resource_type, region_name), NoArgs)>>

_clean_resources_in_region(service_name, resource_type, region_name) ==
    [i \in 1..NumConnectors |->
        Op("delete", storage_connectors[i], NoUrn, "",
           Scope(service_name, resource_type, region_name), NoArgs)]

\* lines 158-160
TypeClientArgs(session, region_name, client_args) ==
    IF Truthy(client_args)
    THEN client_args
    ELSE [region_name |-> IF region_name # Absent THEN region_name
                          ELSE session.region_name,
          config |-> Absent]

\* (mutant) the pass cleans every enabled region
CleanedRegions_all_enabled(service_name, region_name) == enabled_regions

\* (mutant) the pass cleans the queried region only
CleanedRegions_queried_only(service_name, region_name) == <<region_name>>

\* the regions a pass over (service_name, region_name) cleans, lines 167-171
CleanedRegions(service_name, region_name) ==
    resource_regions_returned_from_api_region(service_name, region_name)

\* (mutant) no clean-up when the provider returned nothing
TypeBody_skip_clean_when_empty(existing, service_name, resource_type, client_args) ==
    LET resources == get_resources_of_type(existing, service_name, resource_type,
                                           client_args)
        regions_returned == CleanedRegions(service_name, client_args.region_name)
    IN  IF resources = <<>> THEN <<>>
        ELSE Flatten([i \in 1..Len(resources) |->
                  _write_resource(resources[i], client_args.region_name)
                  \o <<Op("extend", 0, NoUrn, "", NoScope, NoArgs)>>
                  \o _write_secondary_attributes(resources[i], client_args.region_name)
                  \o <<Op("extend", 0, NoUrn, "", NoScope, NoArgs)>>])
             \o Flatten([i \in 1..Len(regions_returned) |->
                  _clean_resources_in_region(service_name, resource_type,
                                             regions_returned[i])])

\* (mutant) the scope is cleaned before its resources are written
TypeBody_clean_first(existing, service_name, resource_type, client_args) ==
    LET resources == get_resources_of_type(existing, service_name, resource_type,
                                           client_args)
        regions_returned == CleanedRegions(service_name, client_args.region_name)
    IN  Flatten([i \in 1..Len(regions_returned) |->
              _clean_resources_in_region(service_name, resource_type,
                                         regions_returned[i])])
        \o Flatten([i \in 1..Len(resources) |->
              _write_resource(resources[i], client_args.region_name)
              \o <<Op("extend", 0, NoUrn, "", NoScope, NoArgs)>>
              \o _write_secondary_attributes(resources[i], client_args.region_name)
              \o <<Op("extend", 0, NoUrn, "", NoScope, NoArgs)>>])

\* lines 163-173: the writes of the resources returned, then the clean-up
\* of the regions returned
TypeSteps(resources, regions_returned, service_name, resource_type, region_name) ==
    Flatten([i \in 1..Len(resources) |->
              _write_resource(resources[i], region_name)
              \o <<Op("extend", 0, NoUrn, "", NoScope, NoArgs)>>
              \o _write_secondary_attributes(resources[i], region_name)
              \o <<Op("extend", 0, NoUrn, "", NoScope, NoArgs)>>])
    \o Flatten([i \in 1..Len(regions_returned) |->
              _clean_resources_in_region(service_name, resource_type,
                                         regions_returned[i])])

\* lines 162-173, for client_args that hold a region_name (resources and
\* regions_returned are each evaluated once, as the code binds them)
TypeBody(existing, service_name, resource_type, client_args) ==
    CHOOSE steps \in
        {TypeSteps(resources, regions_returned, service_name, resource_type,
                   client_args.region_name) :
            resources \in {get_resources_of_type(existing, service_name,
                                                 resource_type, client_args)},
            regions_returned \in {CleanedRegions(service_name,
                                                 client_args.region_name)}} : TRUE

write_resources_of_type_in_region(existing, session, service_name, resource_type, region_name, client_args) ==
    LET args == TypeClientArgs(session, region_name, client_args)
        scope == Scope(service_name, resource_type, args.region_name)
    IN  <<Op("fetch", 0, NoUrn, "", scope, args)>>
        \o (IF args.region_name = Absent THEN <<>>
            ELSE TypeBody(existing, service_name, resource_type, args))
        \o <<Op("return", 0, NoUrn, "", scope, args)>>

\* lines 124-128: the dict write_resources_of_service_in_region hands to its
\* passes, a copy of client_args with region_name set
ServiceClientArgs(session, region_name, client_args) ==
    [region_name |-> IF region_name # Absent THEN region_name
                     ELSE IF client_args.region_name # Absent
                          THEN client_args.region_name
                          ELSE session.region_name,
     config |-> client_args.config]

\* (mutant) exclude_resources is ignored
write_resources_of_service_in_region_no_exclude(existing, session, service_name, exclude_resources, region_name, client_args) ==
    LET args == ServiceClientArgs(session, region_name, client_args)
        types == get_service_resource_types(service_name)
    IN  <<Op("client_args", 0, NoUrn, "", Scope(service_name, None, region_name),
             args)>>
        \o Flatten([i \in 1..Len(types) |->
              write_resources_of_type_in_region(existing, session, service_name,
                                                types[i], Absent, args)])

write_resources_of_service_in_region(existing, session, service_name, exclude_resources, region_name, client_args) ==
    LET args == ServiceClientArgs(session, region_name, client_args)
        types == get_service_resource_types(service_name)
    IN  <<Op("client_args", 0, NoUrn, "", Scope(service_name, None, region_name),
             args)>>
        \o Flatten([i \in 1..Len(types) |->
              IF types[i] \in exclude_resources THEN <<>>
              ELSE write_resources_of_type_in_region(existing, session, service_name,
                                                     types[i], Absent, args)])

write_resources_in_region(existing, session, exclude_resources, region_name, client_args) ==
    Flatten([i \in 1..Len(get_all_resource_services) |->
        write_resources_of_service_in_region(existing, session,
            get_all_resource_services[i], exclude_resources, region_name, client_args)])

\* (mutant) only the first enabled region is traversed
write_resources_first_region_only(existing, session, exclude_resources, client_args) ==
    write_resources_in_region(existing, session, exclude_resources,
                              enabled_regions[1], client_args)

write_resources(existing, session, exclude_resources, client_args) ==
    Flatten([i \in 1..NumRegions |->
        write_resources_in_region(existing, session, exclude_resources,
                                  enabled_regions[i], client_args)])

----------------------------------------------------------------------------
(* Threads. *)

Threads == 0..NumRegions

NoOp == Op(None, 0, NoUrn, "", NoScope, NoArgs)

\* cur: the scope of the pass the thread is in or was last in; ended: that
\* pass has returned; err: the step that raised
IdleThread ==
    [st |-> "idle", todo |-> <<>>, gen |-> <<>>, urns |-> <<>>,
     cur |-> NoScope, ended |-> FALSE, session |-> boto3_session, err |-> NoOp]

Running(t) == th[t].st = "running" /\ th[t].todo # <<>>

Next_op(t) == Head(th[t].todo)

\* (mutant) the failure of a region task ends the other tasks too
Abort_cancels_siblings(t) ==
    [i \in Threads |->
        IF i = t
        THEN [th[i] EXCEPT !.st = IF t = 0 THEN "raised" ELSE "failed",
                           !.todo = <<>>, !.err = Next_op(t)]
        ELSE IF t # 0 /\ i # 0 /\ th[i].st \in {"queued", "running"}
             THEN [th[i] EXCEPT !.st = "failed", !.todo = <<>>]
             ELSE th[i]]

\* An exception leaves every frame of the thread: the caller's call raises,
\* a region task ends at the task boundary (executor.submit, lines 80-86).
Abort(t) ==
    [th EXCEPT ![t].st = IF t = 0 THEN "raised" ELSE "failed", ![t].todo = <<>>,
               ![t].err = Next_op(t)]

Request(kind, t, o) ==
    [kind |-> kind, c |-> o.c, t |-> t, urn |-> o.urn, at |-> o.at,
     pass |-> th[t].cur, scope |-> o.scope, account |-> account_id,
     keep |-> IF kind = "delete" THEN Range(th[t].urns) ELSE {}]

\* (mutant) a yielded urn goes straight into urns
Yield_into_urns(r) ==
    [r EXCEPT !.todo = Tail(@), !.urns = Append(@, Head(r.todo).urn)]

\* line 179, 184 or 201: the generator yields a urn to list()
Yield(r) == [r EXCEPT !.todo = Tail(@), !.gen = Append(@, Head(r.todo).urn)]

\* urns.extend(list(...)), lines 165 and 166
Extend(r) == [r EXCEPT !.todo = Tail(@), !.urns = @ \o r.gen, !.gen = <<>>]

\* write_resources_of_type_in_region returns
Return(r) == [r EXCEPT !.todo = Tail(@), !.ended = TRUE]

\* the thread runs on to its next call of the provider or of a connector
RECURSIVE Settle(_)
Settle(r) ==
    IF r.todo = <<>> THEN r
    ELSE CASE Head(r.todo).op = "yield" -> Settle(Yield(r))
           [] Head(r.todo).op = "extend" -> Settle(Extend(r))
           [] Head(r.todo).op = "return" -> Settle(Return(r))
           [] OTHER -> r

\* the thread has made the call at the head of its steps
Advance(t) == [th EXCEPT ![t] = Settle([@ EXCEPT !.todo = Tail(@)])]

\* lines 158-162: client_args['region_name'] raises KeyError when the key is
\* absent, else the provider returns the resources of the scope
Fetch(t) ==
    /\ Running(t) /\ Next_op(t).op = "fetch"
    /\ th' = IF Next_op(t).ca.region_name = Absent
             THEN Abort(t)
             ELSE [th EXCEPT ![t] = Settle([@ EXCEPT !.todo = Tail(@),
                                               !.cur = Next_op(t).scope,
                                               !.urns = <<>>, !.gen = <<>>,
                                               !.ended = FALSE])]
    /\ UNCHANGED <<cloud, store, call, issued, faults, nsess, snap>>

\* (mutant) the urn of a record the connector already held is not yielded
WriteResource_yield_new_only(t) ==
    /\ Running(t) /\ Next_op(t).op = "write_resource"
    /\ store' = [store EXCEPT ![Next_op(t).c] = write_resource(@, Next_op(t).urn)]
    /\ issued' = issued \cup {Request("write_resource", t, Next_op(t))}
    /\ th' = [th EXCEPT ![t] = Settle([@ EXCEPT !.todo =
                IF /\ Record(Next_op(t).urn, "resource") \in store[Next_op(t).c]
                   /\ Len(th[t].todo) > 1 /\ th[t].todo[2].op = "yield"
                THEN Tail(Tail(@)) ELSE Tail(@)])]
    /\ UNCHANGED <<cloud, call, faults, nsess, snap>>

\* lines 177-178 and 185-186
WriteResource(t) ==
    /\ Running(t) /\ Next_op(t).op = "write_resource"
    /\ store' = [store EXCEPT ![Next_op(t).c] = write_resource(@, Next_op(t).urn)]
    /\ issued' = issued \cup {Request("write_resource", t, Next_op(t))}
    /\ th' = Advance(t)
    /\ UNCHANGED <<cloud, call, faults, nsess, snap>>

\* (mutant) region_name is written into the dict the caller passed
CopyClientArgs_in_place(t) ==
    /\ Running(t) /\ Next_op(t).op = "client_args"
    /\ th' = Advance(t)
    /\ call' = [call EXCEPT !.client_args =
                    IF Truthy(@) THEN Next_op(t).ca ELSE @]
    /\ UNCHANGED <<cloud, store, issued, faults, nsess, snap>>

\* lines 124-128: client_args.copy() (or a new dict) is made and region_name
\* is written into that copy, the dict of the steps to come; the dict the
\* caller passed, call.client_args, is left as it is
CopyClientArgs(t) ==
    /\ Running(t) /\ Next_op(t).op = "client_args"
    /\ th' = Advance(t)
    /\ UNCHANGED <<cloud, store, call, issued, faults, nsess, snap>>

\* line 182
Load(t) ==
    /\ Running(t) /\ Next_op(t).op = "load"
    /\ th' = Advance(t)
    /\ UNCHANGED <<cloud, store, call, issued, faults, nsess, snap>>

\* lines 195-200
WriteSecondaryAttribute(t) ==
    /\ Running(t) /\ Next_op(t).op = "write_secondary_attribute"
    /\ store' = [store EXCEPT ![Next_op(t).c] =
                    write_secondary_attribute(@, Next_op(t).urn, Next_op(t).at)]
    /\ issued' = issued \cup {Request("write_secondary_attribute", t, Next_op(t))}
    /\ th' = Advance(t)
    /\ UNCHANGED <<cloud, call, faults, nsess, snap>>

\* (mutant) the delete reaches the records of the scope's service, resource
\* type and account in every region
Delete_any_region(t) ==
    /\ Running(t) /\ Next_op(t).op = "delete"
    /\ store' = [store EXCEPT ![Next_op(t).c] =
                    {r \in @ :
                        ~ (/\ r.urn.service = Next_op(t).scope.service
                           /\ r.urn.resource_type = Next_op(t).scope.resource_type
                           /\ r.urn.account_id = account_id
                           /\ r.urn \notin Range(th[t].urns))}]
    /\ issued' = issued \cup {Request("delete", t, Next_op(t))}
    /\ th' = Advance(t)
    /\ UNCHANGED <<cloud, call, faults, nsess, snap>>

\* lines 206-213
Delete(t) ==
    /\ Running(t) /\ Next_op(t).op = "delete"
    /\ store' = [store EXCEPT ![Next_op(t).c] =
                    delete_resource_of_type_in_account_region(@,
                        Next_op(t).scope.service, Next_op(t).scope.resource_type,
                        account_id, Next_op(t).scope.region, th[t].urns)]
    /\ issued' = issued \cup {Request("delete", t, Next_op(t))}
    /\ th' = Advance(t)
    /\ UNCHANGED <<cloud, call, faults, nsess, snap>>

\* the public method called by the thread returns
Finish(t) ==
    /\ th[t].st = "running" /\ th[t].todo = <<>>
    /\ th' = [th EXCEPT ![t].st = "done"]
    /\ UNCHANGED <<cloud, store, call, issued, faults, nsess, snap>>

\* A call of the provider or of a connector raises.  Nothing in lines 162-213
\* catches it.
IsExternalCall(o) ==
    o.op \in {"fetch", "load", "write_resource", "write_secondary_attribute", "delete"}

Raise(t) ==
    /\ Running(t) /\ IsExternalCall(Next_op(t))
    /\ faults < MaxFaults
    /\ faults' = faults + 1
    /\ th' = Abort(t)
    /\ UNCHANGED <<cloud, store, call, issued, nsess, snap>>

\* a step of a thread inside write_resources_of_type_in_region, or its return
PassStep(t) ==
    \/ Fetch(t) \/ WriteResource(t) \/ Load(t) \/ WriteSecondaryAttribute(t)
    \/ Delete(t) \/ Finish(t) \/ Raise(t)

Step(t) == CopyClientArgs(t) \/ PassStep(t)

----------------------------------------------------------------------------
(* The states before a call. *)

UrnOf(u) == AwsUrn(account_id, u.home, u.service, u.resource_type, u.id)

\* records a connector may hold before the call: of resources that exist or
\* are gone, of another account, and a secondary attribute
PriorRecords ==
    {Record(UrnOf(Universe[i]), "resource") : i \in 1..4}
    \cup {Record(AwsUrn(OtherAccount, "r1", "ec2", "instance", 1), "resource"),
          Record(AwsUrn(account_id, "r2", "s3", "bucket", 6), "resource"),
          Record(UrnOf(Universe[2]), "attr")}

Priors == {P \in SUBSET PriorRecords : Cardinality(P) <= MaxPrior}

Clouds == {S \in SUBSET UniverseIds : Cardinality(S) <= MaxCloud}

ClientArgs ==
    {NoArgs, [region_name |-> Absent, config |-> "cfg"],
     [region_name |-> "r2", config |-> "cfg"]}

NoCall ==
    [method |-> None, service |-> None, resource_type |-> None,
     region_name |-> Absent, client_args |-> NoArgs, exclude |-> {},
     session_generator |-> None, concurrency |-> 0, n |-> 0]

\* before a concurrent run the connectors hold nothing, or every record
ConcPriors == {{}, PriorRecords}

\* before a sequential traversal: nothing, one record, or every record
TravPriors == {P \in SUBSET PriorRecords : Cardinality(P) <= 1} \cup {PriorRecords}

WorldOf(priors) ==
    /\ cloud \in Clouds
    /\ \E P \in priors : store = [c \in Connectors |-> P]
    /\ th = [t \in Threads |-> IdleThread]
    /\ issued = {}
    /\ faults = 0
    /\ nsess = 0
    /\ snap = store

InitWorld == WorldOf(Priors)

ScopeTypes ==
    UNION {{<<s, ty>> : ty \in Range(get_service_resource_types(s))} :
              s \in Range(get_all_resource_services)}

\* lines 72-86: one submit per enabled region, then the executor's
\* with-block waits for the tasks
write_resources_concurrently ==
    [i \in 1..NumRegions |->
        Op("submit", i, NoUrn, "", Scope(None, None, enabled_regions[i]), NoArgs)]
    \o <<Op("join", 0, NoUrn, "", NoScope, NoArgs)>>

\* the steps of the public method `call` names, run by the caller
Invoke ==
    CASE call.method = "write_resources_of_type_in_region" ->
            write_resources_of_type_in_region(cloud, boto3_session, call.service,
                call.resource_type, call.region_name, call.client_args)
      [] call.method = "write_resources_of_service_in_region" ->
            write_resources_of_service_in_region(cloud, boto3_session, call.service,
                call.exclude, call.region_name, call.client_args)
      [] call.method = "write_resources_in_region" ->
            write_resources_in_region(cloud, boto3_session, call.exclude,
                call.region_name, call.client_args)
      [] call.method = "write_resources" ->
            write_resources(cloud, boto3_session, call.exclude, call.client_args)
      [] call.method = "write_resources_concurrently" ->
            write_resources_concurrently

Call ==
    /\ th[0].st = "idle"
    /\ th' = [th EXCEPT ![0] = Settle([@ EXCEPT !.st = "running", !.todo = Invoke])]
    /\ call' = [call EXCEPT !.n = 1]
    /\ UNCHANGED <<cloud, store, issued, faults, nsess, snap>>

\* the same call once more, after the previous one has returned
Again ==
    /\ th[0].st = "done" /\ call.n < MaxCalls
    /\ th' = [th EXCEPT ![0] = Settle([IdleThread EXCEPT !.st = "running",
                                                         !.todo = Invoke])]
    /\ call' = [call EXCEPT !.n = @ + 1]
    /\ snap' = store
    /\ issued' = {}
    /\ UNCHANGED <<cloud, store, faults, nsess>>

----------------------------------------------------------------------------
(* Spec: one scope, write_resources_of_type_in_region called directly.     *)

TypeCalls ==
    {[NoCall EXCEPT !.method = "write_resources_of_type_in_region",
                    !.service = st[1], !.resource_type = st[2],
                    !.region_name = r, !.client_args = ca] :
        st \in ScopeTypes, r \in Regions \cup {Absent}, ca \in ClientArgs}

Init == InitWorld /\ call \in TypeCalls

Next == Call \/ Again \/ \E t \in Threads : PassStep(t)

Spec == Init /\ [][Next]_vars

----------------------------------------------------------------------------
(* Properties of one scope pass (Spec). *)

\* the caller's pass has returned: every write and delete of the pass is
\* done and nothing has been written or deleted since
PassEnd == th[0].ended /\ th[0].st = "done"

KeepSet == Range(th[0].urns)

\* the urns connector contents `records` hold for scope sc of the account
StoredUrns(records, sc) ==
    {r.urn : r \in {x \in records :
        InScope(x.urn, sc.service, sc.resource_type, account_id, sc.region)}}

RecordsIn(records, sc) ==
    {x \in records : InScope(x.urn, sc.service, sc.resource_type, account_id, sc.region)}

\* what the provider returned to the pass the caller is in
PassResources ==
    get_resources_of_type(cloud, th[0].cur.service, th[0].cur.resource_type,
                          [region_name |-> th[0].cur.region, config |-> Absent])

DeleteIssued(c, sc) ==
    \E q \in issued : q.kind = "delete" /\ q.c = c /\ q.scope = sc

\* C1 as stated: at the end of a failure-free pass every connector's stored
\* set for the exact scope of the pass equals the keep-set of the pass.
C1_StoredEqualsKeepSet ==
    PassEnd => \A c \in Connectors : StoredUrns(store[c], th[0].cur) = KeepSet

\* C1 (amended): at the end of a failure-free pass every connector's stored
\* set for the exact scope of the pass equals the urns of the keep-set that
\* lie in that scope; the keep-set may also hold urns of another resource
\* type (subresources) or region (resources of a global service).
C1_StoredEqualsKeepSetInScope ==
    PassEnd => \A c \in Connectors :
        StoredUrns(store[c], th[0].cur) =
            {u \in KeepSet : InScope(u, th[0].cur.service, th[0].cur.resource_type,
                                     account_id, th[0].cur.region)}

\* C1 witness: instance 1 (V1) was stored and is gone from the provider,
\* instance 2 (V2) is new; after the pass the scope holds V2 only.
C1_Witness ==
    /\ PassEnd /\ call.n = 1
    /\ th[0].cur = Scope("ec2", "instance", "r1")
    /\ cloud = {2}
    /\ Record(UrnOf(Universe[1]), "resource") \in snap[1]
    /\ \A c \in Connectors : StoredUrns(store[c], th[0].cur) = {UrnOf(Universe[2])}

\* the regions the pass the caller is in may clean
PassRegions ==
    Range(resource_regions_returned_from_api_region(th[0].cur.service, th[0].cur.region))

\* C2 as stated: every delete request of a pass over (S, T, R) is for exactly
\* (S, T, R, account_id), and no stored record of another service, resource
\* type or region is deleted or changed.
C2_DeletesOnlyExactScope ==
    /\ \A q \in issued : q.kind = "delete" =>
          q.scope = q.pass /\ q.account = account_id
    /\ th[0].cur # NoScope =>
          \A c \in Connectors : \A r \in snap[c] :
              ~ InScope(r.urn, th[0].cur.service, th[0].cur.resource_type,
                        account_id, th[0].cur.region) => r \in store[c]

\* C2 (amended): every delete request of a pass over (S, T, R) is for S, T,
\* account_id and one of the regions the resources returned from API region
\* R belong to (R itself, and for a global service queried from its API
\* region every enabled region); no stored record of another service,
\* resource type or account, or of a region outside those, is deleted.
C2_DeletesOnlyReturnedRegions ==
    /\ \A q \in issued : q.kind = "delete" =>
          /\ q.scope.service = q.pass.service
          /\ q.scope.resource_type = q.pass.resource_type
          /\ q.account = account_id
          /\ q.scope.region \in
                Range(resource_regions_returned_from_api_region(q.pass.service,
                                                                q.pass.region))
    /\ th[0].cur # NoScope =>
          \A c \in Connectors : \A r \in snap[c] :
              (\/ r.urn.service # th[0].cur.service
               \/ r.urn.resource_type # th[0].cur.resource_type
               \/ r.urn.account_id # account_id
               \/ r.urn.region \notin PassRegions) => r \in store[c]

\* C2 witness: a pass over (ec2, instance, r1) has deleted a stale instance
\* of r1 while an instance record of r2 and one of another account stay.
C2_Witness ==
    /\ PassEnd /\ call.n = 1
    /\ th[0].cur = Scope("ec2", "instance", "r1")
    /\ Record(UrnOf(Universe[1]), "resource") \in snap[1] \ store[1]
    /\ \E r \in store[1] :
          r.urn.resource_type = "instance" /\ r.urn.service = "ec2"
          /\ (r.urn.region = "r2" \/ r.urn.account_id = OtherAccount)

\* C5: when the provider returns nothing for the scope, the delete is still
\* issued to every connector with an empty keep-set and no record of the
\* scope is left.
C5_EmptyResultDeletesAll ==
    (PassEnd /\ PassResources = <<>>) =>
        \A c \in Connectors :
            /\ \E q \in issued : /\ q.kind = "delete" /\ q.c = c
                                 /\ q.scope = th[0].cur /\ q.keep = {}
            /\ RecordsIn(store[c], th[0].cur) = {}

\* C5 witness: two stored records of the scope, nothing returned, both gone.
C5_Witness ==
    /\ PassEnd /\ call.n = 1 /\ PassResources = <<>>
    /\ Cardinality(RecordsIn(snap[1], th[0].cur)) = 2
    /\ \A c \in Connectors : RecordsIn(store[c], th[0].cur) = {}

\* C6: when a resource returned by the query against region Q belongs to a
\* region A # Q, the pass issues the delete for (service, type, A) to every
\* connector and no stale record is left under A.
C6_CleansActualRegion ==
    PassEnd =>
        \A i \in 1..Len(PassResources) :
            LET A == regionOf(PassResources[i], th[0].cur.region)
                sc == Scope(th[0].cur.service, th[0].cur.resource_type, A)
            IN  A # th[0].cur.region =>
                  \A c \in Connectors :
                      /\ DeleteIssued(c, sc)
                      /\ StoredUrns(store[c], sc) \subseteq KeepSet

\* C6 witness: the query of s3 against r1 returned bucket 5 of r2, and the
\* stale bucket 6 stored under r2 is gone.
C6_Witness ==
    /\ PassEnd /\ call.n = 1
    /\ th[0].cur = Scope("s3", "bucket", "r1")
    /\ 5 \in cloud
    /\ Record(AwsUrn(account_id, "r2", "s3", "bucket", 6), "resource") \in snap[1]
    /\ \A c \in Connectors :
          StoredUrns(store[c], Scope("s3", "bucket", "r2")) = {UrnOf(Universe[5])}

\* C7 as stated: when the write or the load of one resource (or subresource
\* or secondary attribute) raises, the pass goes on: every other resource of
\* the scope is written to every connector and the scope is still cleaned.
C7_ResourceFailureIsolated ==
    (/\ th[0].st \in {"done", "raised"}
     /\ th[0].err.op \in {"write_resource", "load", "write_secondary_attribute"}) =>
        /\ \A i \in 1..Len(PassResources) :
              LET urn == _get_resource_urn(PassResources[i], th[0].cur.region)
              IN  urn # th[0].err.urn =>
                    \A c \in Connectors : Record(urn, "resource") \in store[c]
        /\ \A c \in Connectors : DeleteIssued(c, th[0].cur)

\* C10: a second run of the same scope with the same provider results leaves
\* every connector's records of the scope as the first run left them.
C10_Idempotent ==
    (call.n = 2 /\ th[0].st = "done") =>
        \A c \in Connectors :
            RecordsIn(store[c], th[0].cur) = RecordsIn(snap[c], th[0].cur)

\* C10 witness: the second run has returned and the scope holds a record
\* that the first run wrote and a stale one that it deleted.
C10_Witness ==
    /\ call.n = 2 /\ th[0].st = "done"
    /\ th[0].cur = Scope("ec2", "instance", "r1")
    /\ cloud = {1}
    /\ \A c \in Connectors :
          StoredUrns(store[c], th[0].cur) = {UrnOf(Universe[1])}

\* the urns the current pass of thread t has written as resources to connector c
WrittenIn(t, c) ==
    {q.urn : q \in {x \in issued : /\ x.kind = "write_resource" /\ x.t = t
                                   /\ x.c = c /\ x.pass = th[t].cur}}

\* C11: the keep-set of a pass holds exactly the urns of the resources and
\* subresources the pass has written to the connectors: at every point each
\* urn of the keep-set has been written to every connector, the keep-set
\* handed to a delete is the set of urns written, and a secondary attribute
\* is written under the urn of its (written) parent and adds no other urn.
C11_KeepSetIsWrittenUrns ==
    /\ \A c \in Connectors : KeepSet \subseteq WrittenIn(0, c)
    /\ \A q \in issued :
          /\ q.kind = "delete" => \A c \in Connectors : q.keep = WrittenIn(0, c)
          /\ q.kind = "write_secondary_attribute" =>
                /\ q.urn \in WrittenIn(0, q.c)
                /\ q.urn.resource_type = th[0].cur.resource_type

\* C11 witness: the pass over instance 1 (one subresource, one secondary
\* attribute) has handed the urns of the instance and of its subresource,
\* and nothing else, to the deletes.
C11_Witness ==
    /\ PassEnd /\ cloud = {1} /\ th[0].cur = Scope("ec2", "instance", "r1")
    /\ KeepSet = {UrnOf(Universe[1]), AwsUrn(account_id, "r1", "ec2", "nic", 7)}
    /\ \A c \in Connectors :
          /\ Record(UrnOf(Universe[1]), "attr") \in store[c]
          /\ \E q \in issued : q.kind = "delete" /\ q.c = c /\ q.keep = KeepSet

\* C12: within a pass every write_resource and write_secondary_attribute
\* call comes before the first delete call of the pass: once a delete of a
\* pass has been made, no step makes a write of that pass.
C12_WritesBeforeDelete ==
    [][\A q \in issued' \ issued :
          q.kind \in {"write_resource", "write_secondary_attribute"} =>
              ~ \E d \in issued :
                    d.kind = "delete" /\ d.t = q.t /\ d.pass = q.pass]_vars

\* C12 witness: the first delete of a pass that has written a resource, a
\* subresource and a secondary attribute to every connector has been made,
\* with the second connector's delete still to come.
C12_Witness ==
    /\ th[0].st = "running" /\ cloud = {1}
    /\ th[0].cur = Scope("ec2", "instance", "r1")
    /\ Next_op(0).op = "delete"
    /\ \E d \in issued : d.kind = "delete" /\ d.pass = th[0].cur
    /\ \A c \in Connectors :
          /\ WrittenIn(0, c) = KeepSet /\ Cardinality(KeepSet) = 2
          /\ \E q \in issued : q.kind = "write_secondary_attribute" /\ q.c = c

\* C14 as stated: write_resources_of_type_in_region fetches from and cleans
\* region_name when it is given and the session's region when it is not,
\* whatever client_args is, and does not fail because client_args was given.
C14_RegionSelected ==
    LET region == IF call.region_name # Absent THEN call.region_name
                  ELSE boto3_session.region_name
    IN  /\ faults = 0 => th[0].st # "raised"
        /\ th[0].cur # NoScope => th[0].cur.region = region
        /\ \A q \in issued : q.pass.region = region

\* C15 as stated: when the load or the write of a resource of the scope has
\* raised during a pass, the pass still cleans the scope in every connector,
\* with a keep-set that lacks the urn that failed, so that a record stored
\* before the pass for that resource is not left in a connector that did
\* not get the fresh write.
C15_PartialFailureStillReconciles ==
    (/\ th[0].st \in {"done", "raised"}
     /\ th[0].err.op \in {"write_resource", "load"}) =>
        \A c \in Connectors :
            /\ \E q \in issued : /\ q.kind = "delete" /\ q.c = c
                                 /\ q.scope = th[0].cur
                                 /\ th[0].err.urn \notin q.keep
            /\ th[0].err.urn \notin WrittenIn(0, c) =>
                  Record(th[0].err.urn, "resource") \notin store[c]

\* urn is the urn of a subresource
IsSubresourceUrn(urn) ==
    \E i \in UniverseIds : \E k \in 1..Len(Universe[i].subs) :
        /\ Universe[i].subs[k].id = urn.resource_id
        /\ Universe[i].subs[k].resource_type = urn.resource_type

\* the urn of the resource the subresource of urn `urn` was enumerated from
ParentUrn(urn) ==
    LET i == CHOOSE j \in UniverseIds : \E k \in 1..Len(Universe[j].subs) :
                 /\ Universe[j].subs[k].id = urn.resource_id
                 /\ Universe[j].subs[k].resource_type = urn.resource_type
    IN  AwsUrn(urn.account_id, urn.region, Universe[i].service,
               Universe[i].resource_type, Universe[i].id)

\* C16: a subresource is loaded only when its parent has been written to
\* every connector in the same pass, and a connector that has been written
\* a subresource record in a pass holds the parent's record, written to
\* every connector earlier in that pass.
C16_ParentBeforeChild ==
    /\ (Running(0) /\ Next_op(0).op = "load") =>
          \A c \in Connectors : ParentUrn(Next_op(0).urn) \in WrittenIn(0, c)
    /\ \A q \in issued :
          (q.kind = "write_resource" /\ IsSubresourceUrn(q.urn)) =>
              /\ Record(ParentUrn(q.urn), "resource") \in store[q.c]
              /\ \A c \in Connectors :
                    \E p \in issued : /\ p.kind = "write_resource" /\ p.c = c
                                     /\ p.urn = ParentUrn(q.urn)
                                     /\ p.t = q.t /\ p.pass = q.pass

\* C16 witness: the first connector has been written the subresource of
\* instance 1, the second has not yet; both hold the record of instance 1.
C16_Witness ==
    /\ Running(0) /\ Next_op(0).op = "write_resource"
    /\ IsSubresourceUrn(Next_op(0).urn) /\ Next_op(0).c = storage_connectors[2]
    /\ Record(Next_op(0).urn, "resource") \in store[1] \ store[2]
    /\ \A c \in Connectors : Record(UrnOf(Universe[1]), "resource") \in store[c]
    /\ Record(UrnOf(Universe[1]), "resource") \notin snap[1]

----------------------------------------------------------------------------
(* write_resources_concurrently: the thread pool. *)

\* line 74: the session of the task submitted after n calls of the factory
TaskSession(n) ==
    IF call.session_generator # None THEN NewSession(n + 1) ELSE boto3_session

\* lines 73-86: the caller creates the task's CloudWanderer and submits it
Submit ==
    /\ Running(0) /\ Next_op(0).op = "submit"
    /\ LET i == Next_op(0).c
           session == TaskSession(nsess)
       IN  /\ th' = [th EXCEPT
                       ![0].todo = Tail(@),
                       ![i] = Settle([IdleThread EXCEPT
                                 !.st = "queued",
                                 !.session = session,
                                 !.todo = write_resources_in_region(cloud, session,
                                             call.exclude, Next_op(0).scope.region,
                                             call.client_args)])]
           /\ nsess' = IF call.session_generator # None THEN nsess + 1 ELSE nsess
    /\ UNCHANGED <<cloud, store, call, issued, faults, snap>>

NumRunning == Cardinality({i \in 1..NumRegions : th[i].st = "running"})

\* (mutant) a queued task starts whatever the number of tasks running
StartTask_unbounded(i) ==
    /\ th[i].st = "queued"
    /\ \A j \in 1..NumRegions : j < i => th[j].st # "queued"
    /\ th' = [th EXCEPT ![i].st = "running"]
    /\ UNCHANGED <<cloud, store, call, issued, faults, nsess, snap>>

\* ThreadPoolExecutor(max_workers=concurrency): a free worker takes the
\* oldest queued task
StartTask(i) ==
    /\ th[i].st = "queued"
    /\ NumRunning < call.concurrency
    /\ \A j \in 1..NumRegions : j < i => th[j].st # "queued"
    /\ th' = [th EXCEPT ![i].st = "running"]
    /\ UNCHANGED <<cloud, store, call, issued, faults, nsess, snap>>

\* (mutant) the caller leaves the with-block without waiting for the tasks
Join_no_wait ==
    /\ Running(0) /\ Next_op(0).op = "join"
    /\ th' = [th EXCEPT ![0].todo = Tail(@)]
    /\ UNCHANGED <<cloud, store, call, issued, faults, nsess, snap>>

\* leaving the with-block: executor.shutdown(wait=True)
Join ==
    /\ Running(0) /\ Next_op(0).op = "join"
    /\ \A i \in 1..NumRegions : th[i].st \in {"done", "failed"}
    /\ th' = [th EXCEPT ![0].todo = Tail(@)]
    /\ UNCHANGED <<cloud, store, call, issued, faults, nsess, snap>>

----------------------------------------------------------------------------
(* SpecTrav: the traversals, sequential and concurrent. *)

Excludes == {{}, {"instance"}}

SeqCalls ==
    {[NoCall EXCEPT !.method = "write_resources", !.exclude = e] : e \in Excludes}
    \cup {[NoCall EXCEPT !.method = "write_resources_in_region", !.exclude = e,
                         !.region_name = r] :
            e \in Excludes, r \in {Absent}}
    \cup {[NoCall EXCEPT !.method = "write_resources_of_service_in_region",
                         !.service = "ec2", !.exclude = {"instance"},
                         !.region_name = Absent, !.client_args = ca] :
            ca \in ClientArgs}

ConcCalls ==
    {[NoCall EXCEPT !.method = "write_resources_concurrently", !.exclude = e,
                         !.session_generator = g, !.concurrency = k] :
            e \in Excludes, g \in {None, "new"}, k \in {1, MaxConcurrency}}
    \cup {[NoCall EXCEPT !.method = "write_resources_concurrently",
                         !.exclude = {"instance"}, !.session_generator = None,
                         !.concurrency = MaxConcurrency,
                         !.client_args = [region_name |-> Absent, config |-> "cfg"]]}

InitTrav ==
    \/ WorldOf(TravPriors) /\ call \in SeqCalls
    \/ WorldOf(ConcPriors) /\ call \in ConcCalls

NextTrav ==
    \/ Call \/ Submit \/ Join
    \/ \E i \in 1..NumRegions : StartTask(i)
    \/ \E t \in Threads : Step(t)

SpecTrav == InitTrav /\ [][NextTrav]_vars

----------------------------------------------------------------------------
(* SpecJoin: write_resources_concurrently when every call of the provider  *)
(* and of a connector returns (or raises) and the pool runs its tasks: a   *)
(* step that stays possible is taken.                                      *)

InitJoin == WorldOf(ConcPriors) /\ call \in ConcCalls

SpecJoin == InitJoin /\ [][NextTrav]_vars /\ WF_vars(NextTrav)

----------------------------------------------------------------------------
(* Properties of the traversals (SpecTrav). *)

ExistingUrns == {UrnOf(Universe[i]) : i \in cloud}

\* a urn of the account, of a resource type and a region the traversals crawl
Crawled(urn) ==
    /\ urn.account_id = account_id
    /\ <<urn.service, urn.resource_type>> \in ScopeTypes
    /\ urn.region \in Range(enabled_regions)

\* C3: during write_resources (no exclusions) no record the run has written
\* is deleted again, and when the run has returned without failure every
\* connector holds a record of every resource the provider reports and no
\* record, for the crawled services, types, regions and account, of a
\* resource that is gone.
C3_StorageMatchesProvider ==
    (call.method = "write_resources" /\ call.exclude = {}) =>
        /\ \A q \in issued : q.kind = "write_resource" =>
              Record(q.urn, "resource") \in store[q.c]
        /\ th[0].st = "done" =>
              \A c \in Connectors :
                  /\ \A u \in ExistingUrns : Record(u, "resource") \in store[c]
                  /\ \A r \in store[c] : Crawled(r.urn) => r.urn \in ExistingUrns

\* C3 witness: the run has returned; bucket 5 of r2, written by the pass of
\* r1, is still stored after the passes of r2, and the stale bucket 6 is gone.
C3_Witness ==
    /\ call.method = "write_resources" /\ call.exclude = {} /\ th[0].st = "done"
    /\ 5 \in cloud
    /\ Record(AwsUrn(account_id, "r2", "s3", "bucket", 6), "resource") \in snap[1]
    /\ \A c \in Connectors :
          StoredUrns(store[c], Scope("s3", "bucket", "r2")) = {UrnOf(Universe[5])}

\* the region a traversal of one region crawls, lines 124-128
CalledRegion ==
    ServiceClientArgs(boto3_session, call.region_name, call.client_args).region_name

\* the (service, region) pairs the called traversal crawls
CrawledPairs ==
    CASE call.method = "write_resources_of_service_in_region" ->
            {<<call.service, CalledRegion>>}
      [] call.method = "write_resources_in_region" ->
            {<<s, CalledRegion>> : s \in Range(get_all_resource_services)}
      [] OTHER ->
            {<<s, r>> : s \in Range(get_all_resource_services),
                        r \in Range(enabled_regions)}

\* the traversal has returned and nothing has raised
TraversalDone == th[0].st = "done" /\ faults = 0

\* C4: no connector write or delete is issued for an excluded resource type,
\* and when the traversal has returned without failure every other resource
\* type of the crawled services has been written and cleaned.
C4_ExcludedTypesSkipped ==
    /\ \A q \in issued :
          /\ q.pass.resource_type \notin call.exclude
          /\ q.kind = "delete" => q.scope.resource_type \notin call.exclude
          /\ q.kind # "delete" => q.urn.resource_type \notin call.exclude
    /\ TraversalDone =>
          \A p \in CrawledPairs :
              \A ty \in Range(get_service_resource_types(p[1])) \ call.exclude :
                  \A c \in Connectors :
                      /\ DeleteIssued(c, Scope(p[1], ty, p[2]))
                      /\ LET res == get_resources_of_type(cloud, p[1], ty,
                                       [region_name |-> p[2], config |-> Absent])
                         IN  \A i \in 1..Len(res) :
                                Record(_get_resource_urn(res[i], p[2]), "resource")
                                    \in store[c]

\* C4 witness: exclude = ["instance"] on r1 holding instance 1 and volume 3:
\* no instance request, the volume written and the volume scope cleaned.
C4_Witness ==
    /\ TraversalDone /\ call.method = "write_resources_in_region"
    /\ call.exclude = {"instance"} /\ cloud = {1, 3}
    /\ \A q \in issued : q.pass.resource_type # "instance"
    /\ \A c \in Connectors :
          /\ Record(UrnOf(Universe[3]), "resource") \in store[c]
          /\ DeleteIssued(c, Scope("ec2", "volume", "r1"))

\* the scopes write_resources is to pass over, in order: region by region,
\* and in a region every resource type outside `exclude` of every service
ExpectedScopes(exclude) ==
    Flatten([r \in 1..NumRegions |->
        Flatten([s \in 1..Len(get_all_resource_services) |->
            LET service == get_all_resource_services[s]
                types == get_service_resource_types(service)
            IN  Flatten([k \in 1..Len(types) |->
                    IF types[k] \in exclude THEN <<>>
                    ELSE <<Scope(service, types[k], enabled_regions[r])>>])])])

\* the scopes of the passes the steps `ops` still hold, in order
PassesToCome(ops) ==
    LET fetches == SelectSeq(ops, LAMBDA o : o.op = "fetch")
    IN  [i \in 1..Len(fetches) |-> fetches[i].scope]

ConnectorCalls(ops) ==
    {[kind |-> o.op, c |-> o.c, urn |-> o.urn, at |-> o.at, scope |-> o.scope] :
        o \in {x \in Range(ops) :
                 x.op \in {"write_resource", "write_secondary_attribute", "delete"}}}

IssuedBy(t) ==
    {[kind |-> q.kind, c |-> q.c, urn |-> q.urn, at |-> q.at, scope |-> q.scope] :
        q \in {x \in issued : x.t = t}}

\* C8: in write_resources_concurrently a task that raises does not make the
\* call raise nor end another task: a task fails only by its own error, and
\* when the call returns every task has been submitted and run, and every
\* task that did not raise has made all the writes and deletes of its region.
C8_TaskFailureIsolated ==
    call.method = "write_resources_concurrently" =>
        /\ th[0].st # "raised"
        /\ \A i \in 1..NumRegions : th[i].st = "failed" => th[i].err # NoOp
        /\ th[0].st = "done" =>
              \A i \in 1..NumRegions :
                  /\ th[i].st \in {"done", "failed"}
                  /\ th[i].st = "done" =>
                        IssuedBy(i) = ConnectorCalls(
                            write_resources_in_region(cloud, th[i].session,
                                call.exclude, enabled_regions[i], call.client_args))

\* C8 witness: the task of r1 has raised, the task of r2 has written
\* instance 4 and cleaned its scopes, and the call has returned.
C8_Witness ==
    /\ call.method = "write_resources_concurrently" /\ th[0].st = "done"
    /\ th[1].st = "failed" /\ th[2].st = "done"
    /\ 4 \in cloud
    /\ \A c \in Connectors :
          /\ Record(UrnOf(Universe[4]), "resource") \in store[c]
          /\ \E q \in issued : q.t = 2 /\ q.kind = "delete" /\ q.c = c

Submitted(i) == th[i].st # "idle"

\* C18: in write_resources_concurrently, whatever the interleaving of the
\* region tasks, no record a task has written (of a resource that exists)
\* is deleted by the clean-up of any task, and when every task has finished
\* without failure every connector holds a record of every resource the
\* provider reports (of the resource types not excluded).
C18_ConcurrentNonInterference ==
    call.method = "write_resources_concurrently" =>
        /\ \A q \in issued : q.kind = "write_resource" =>
              Record(q.urn, "resource") \in store[q.c]
        /\ (/\ faults = 0
            /\ \A i \in 1..NumRegions : th[i].st = "done") =>
              \A c \in Connectors : \A u \in ExistingUrns :
                  u.resource_type \notin call.exclude =>
                      Record(u, "resource") \in store[c]

\* C18 witness: both tasks run; the task of r1 is cleaning the instances of
\* r1 (first connector done) after the task of r2 has written instance 4,
\* whose new record is still in the first connector.
C18_Witness ==
    /\ call.method = "write_resources_concurrently"
    /\ th[1].st = "running" /\ th[2].st = "running" /\ cloud = {2, 4}
    /\ Running(1) /\ Next_op(1).op = "delete"
    /\ Next_op(1).scope = Scope("ec2", "instance", "r1")
    /\ Next_op(1).c = storage_connectors[2]
    /\ \E q \in issued : q.t = 1 /\ q.kind = "delete" /\ q.c = 1
    /\ \E q \in issued : q.t = 2 /\ q.kind = "write_resource" /\ q.c = 1
    /\ Record(UrnOf(Universe[4]), "resource") \in store[1] \ snap[1]
    /\ Record(UrnOf(Universe[2]), "resource") \in store[1]

\* the submits the caller has still to make
SubmitsToCome == Len(SelectSeq(th[0].todo, LAMBDA o : o.op = "submit"))

C9_SessionsNeverShared ==
    call.method = "write_resources_concurrently" =>
        \A i, j \in 1..NumRegions :
            Submitted(i) =>
                /\ th[i].session # boto3_session
                /\ (Submitted(j) /\ i # j) => th[i].session # th[j].session

\* the call of the public method has returned
Returned == th[0].st = "done"

\* C19: write_resources_concurrently returns in the end; when it has
\* returned every region task has finished, done or failed; and once it has
\* returned no connector is written to or deleted from.
C19_JoinOnReturn ==
    /\ <>Returned
    /\ [](Returned => \A i \in 1..NumRegions : th[i].st \in {"done", "failed"})
    /\ [][Returned => (store' = store /\ issued' = issued)]_vars

\* C19 witness: the call has returned after both tasks have made writes and
\* deletes and finished.
C19_Witness ==
    /\ call.method = "write_resources_concurrently" /\ Returned
    /\ \A i \in 1..NumRegions :
          /\ th[i].st = "done"
          /\ \E q \in issued : q.t = i /\ q.kind = "write_resource"
          /\ \E q \in issued : q.t = i /\ q.kind = "delete"

\* C20: no step changes the dict the caller passed as client_args; every
\* pass of a traversal of one region gets a dict of its own that holds the
\* caller's configuration and the region of that traversal, region tasks
\* that share one client_args included.
C20_ClientArgsFrame ==
    /\ [][call'.client_args = call.client_args]_vars
    /\ [](\A t \in Threads :
            (Running(t) /\ Next_op(t).op = "fetch") =>
                /\ Next_op(t).ca.region_name = Next_op(t).scope.region
                /\ Next_op(t).ca.config = call.client_args.config
                /\ call.method = "write_resources_concurrently" =>
                      Next_op(t).ca.region_name = enabled_regions[t]
                /\ call.method \in {"write_resources_in_region",
                                    "write_resources_of_service_in_region"} =>
                      Next_op(t).ca.region_name = CalledRegion)

\* C20 witness: two region tasks given the same client_args (a configuration
\* and no region_name) are each about to fetch, the one from r1 and the other
\* from r2, and the caller's client_args still holds no region_name.
C20_Witness ==
    /\ call.method = "write_resources_concurrently"
    /\ call.client_args = [region_name |-> Absent, config |-> "cfg"]
    /\ Running(1) /\ Next_op(1).op = "fetch"
    /\ Running(2) /\ Next_op(2).op = "fetch"
    /\ Next_op(1).ca = [region_name |-> "r1", config |-> "cfg"]
    /\ Next_op(2).ca = [region_name |-> "r2", config |-> "cfg"]
    /\ \E q \in issued : q.t = 1 /\ q.kind = "delete"

====
